---- MODULE Spec2Model ----
(***************************************************************************)
(* Model of verification/verify_app.py: verify_app_loads() opens a         *)
(* Playwright session, launches a headless Chromium, opens one page,       *)
(* navigates to a fixed URL, waits for <body>, waits a settle delay, takes *)
(* a screenshot, and closes the browser in a finally block.                *)
(*                                                                         *)
(* Every call into Playwright may return or raise; the outcome is an input *)
(* chosen by the environment.  One action per statement that can raise.    *)
(* The file system outlives a run, so the model lets the script be run     *)
(* several times in a row against the same verification/ directory.        *)
(***************************************************************************)
EXTENDS Integers, Sequences, FiniteSets, TLC

\* ---------------------------------------------------------------- bounds
MaxRuns == 3                      \* how many times the script is run in a row

\* ------------------------------------------------------ program constants
URL == "http://localhost:3002"
Selector == "body"
SelectorTimeoutMs == 10000
SettleDelayMs == 2000
SuccessPath == "verification/app_loaded.png"
FailurePath == "verification/error.png"

\* Playwright's page.screenshot() captures the viewport unless full_page=True
\* is passed; neither call in the script passes it.
SuccessShotFullPage_Mut == TRUE
SuccessShotFullPage == FALSE
FailureShotFullPage == FALSE

Paths == {"verification/app_loaded.png", "verification/error.png"}
NoExc == "none"

\* ------------------------------------------------- environment's outcomes
\* Time (ms) at which <body> shows up.
BodyTimes == {0, 9999, 10001, 60000}

TimeoutMsg == "Timeout 10000ms exceeded"

\* What each call can raise (besides the selector timeout, which is computed).
\* All of these are Exception subclasses, so "except Exception" catches them
\* where it applies; print() is taken to return normally.
Raises(loc) ==
  CASE loc = "Idle"            -> {"driver failed to start"}
    [] loc = "Launch"          -> {"executable doesn't exist"}
    [] loc = "NewPage"         -> {"browser has been closed"}
    [] loc = "Goto"            -> {"net::ERR_CONNECTION_REFUSED"}
    [] loc = "WaitForSelector" -> {"page crashed"}
    [] loc = "WaitForTimeout"  -> {"page crashed"}
    [] loc = "Screenshot"      -> {"cannot write screenshot"}
    [] loc = "Except"          -> {"cannot write screenshot"}
    [] loc = "Finally"         -> {"connection closed"}
    [] loc = "WithExit"        -> {"driver failed to stop"}

Outcomes(loc) == {NoExc} \cup Raises(loc)

\* wait_for_selector("body", timeout=10000): returns if the element shows up
\* within the timeout, raises TimeoutError otherwise.
WaitForSelectorResult(appearsAt, timeout) ==
  IF appearsAt < timeout THEN NoExc ELSE TimeoutMsg

\* ------------------------------------------------------------ control flow
\* Statement reached when the statement at loc returns normally.
OnOk_SkipSettle(loc) ==
  CASE loc = "Idle"            -> "Launch"
    [] loc = "Launch"          -> "NewPage"
    [] loc = "NewPage"         -> "Goto"
    [] loc = "Goto"            -> "WaitForSelector"
    [] loc = "WaitForSelector" -> "Screenshot"
    [] loc = "WaitForTimeout"  -> "Screenshot"
    [] loc = "Screenshot"      -> "Finally"
    [] loc = "Except"          -> "Finally"
    [] loc = "Finally"         -> "WithExit"
    [] loc = "WithExit"        -> "Done"

OnOk_ShotThenExcept(loc) ==
  CASE loc = "Idle"            -> "Launch"
    [] loc = "Launch"          -> "NewPage"
    [] loc = "NewPage"         -> "Goto"
    [] loc = "Goto"            -> "WaitForSelector"
    [] loc = "WaitForSelector" -> "WaitForTimeout"
    [] loc = "WaitForTimeout"  -> "Screenshot"
    [] loc = "Screenshot"      -> "Except"
    [] loc = "Except"          -> "Finally"
    [] loc = "Finally"         -> "WithExit"
    [] loc = "WithExit"        -> "Done"

OnOk(loc) ==
  CASE loc = "Idle"            -> "Launch"
    [] loc = "Launch"          -> "NewPage"
    [] loc = "NewPage"         -> "Goto"
    [] loc = "Goto"            -> "WaitForSelector"
    [] loc = "WaitForSelector" -> "WaitForTimeout"
    [] loc = "WaitForTimeout"  -> "Screenshot"
    [] loc = "Screenshot"      -> "Finally"
    [] loc = "Except"          -> "Finally"
    [] loc = "Finally"         -> "WithExit"
    [] loc = "WithExit"        -> "Done"

\* The statements inside the try block (lines 8-21).
InTry_NoSettle(loc) == loc \in {"Goto", "WaitForSelector", "Screenshot"}

InTry(loc) == loc \in {"Goto", "WaitForSelector", "WaitForTimeout", "Screenshot"}

\* Statement reached when the statement at loc raises.
OnRaise_TryFromLaunch(loc) ==
  CASE loc = "Idle"     -> "Done"
    [] InTry(loc)       -> "Except"
    [] loc = "Except"   -> "Finally"
    [] loc = "Finally"  -> "WithExit"
    [] loc = "WithExit" -> "Done"
    [] OTHER            -> "Except"

OnRaise(loc) ==
  CASE loc = "Idle"     -> "Done"       \* __enter__ raised: the with body never starts
    [] InTry(loc)       -> "Except"
    [] loc = "Except"   -> "Finally"    \* handler raised: finally still runs
    [] loc = "Finally"  -> "WithExit"
    [] loc = "WithExit" -> "Done"
    [] OTHER            -> "WithExit"   \* outside the try (lines 5-6): unwinds the with block

Target(loc, outcome) == IF outcome = NoExc THEN OnOk(loc) ELSE OnRaise(loc)

\* ------------------------------------------------------------------ state
VARIABLES
  pc,              \* statement about to be executed
  run,             \* number of the current run, 1..MaxRuns
  playwright,      \* "none" | "running" | "stopped"  (the with-scope)
  browser,         \* "none" | "open" | "closed"      (local browser)
  page,            \* "none" | "open"                 (local page)
  exc,             \* exception in flight, or NoExc
  propagated,      \* exception that left verify_app_loads, or NoExc
  calls,           \* Playwright calls made in this run, in order
  stdout,          \* lines written to standard output in this run
  files,           \* file system: path -> number of the run that wrote it, 0 = absent
  startFiles,      \* history: files when the current run started
  prevStartFiles,  \* history: files when the previous run started
  prevSuccess      \* history: the previous run took the success path

vars == <<pc, run, playwright, browser, page, exc, propagated, calls, stdout,
          files, startFiles, prevStartFiles, prevSuccess>>

Call(op, target, ms, fullPage, outcome) ==
  [op |-> op, target |-> target, ms |-> ms, fullPage |-> fullPage,
   ok |-> (outcome = NoExc), raised |-> outcome]

\* open(path, "wb"): creates the file or replaces its content.
WriteFile_NoOverwrite(fs, path, r) ==
  IF fs[path] = 0 THEN [fs EXCEPT ![path] = r] ELSE fs

WriteFile(fs, path, r) == [fs EXCEPT ![path] = r]

\* page.screenshot(path=...): writes the file only when it returns.
ScreenshotTo(fs, path, r, outcome) ==
  IF outcome = NoExc THEN WriteFile(fs, path, r) ELSE fs

EmptyFs == [p \in Paths |-> 0]

Init ==
  /\ pc = "Idle"
  /\ run = 1
  /\ playwright = "none"
  /\ browser = "none"
  /\ page = "none"
  /\ exc = NoExc
  /\ propagated = NoExc
  /\ calls = << >>
  /\ stdout = << >>
  /\ files = EmptyFs
  /\ startFiles = EmptyFs
  /\ prevStartFiles = EmptyFs
  /\ prevSuccess = FALSE

History == <<run, startFiles, prevStartFiles, prevSuccess>>

\* line 4: with sync_playwright() as p  (__enter__)
SyncPlaywrightEnter ==
  /\ pc = "Idle"
  /\ \E o \in Outcomes("Idle") :
       /\ calls' = Append(calls, Call("sync_playwright", "", 0, FALSE, o))
       /\ playwright' = IF o = NoExc THEN "running" ELSE playwright
       /\ propagated' = o
       /\ pc' = Target("Idle", o)
  /\ UNCHANGED <<browser, page, exc, stdout, files, History>>

\* line 5: browser = p.chromium.launch(headless=True)
Launch ==
  /\ pc = "Launch"
  /\ \E o \in Outcomes("Launch") :
       /\ calls' = Append(calls, Call("launch", "chromium", 0, FALSE, o))
       /\ browser' = IF o = NoExc THEN "open" ELSE browser
       /\ exc' = o
       /\ pc' = Target("Launch", o)
  /\ UNCHANGED <<playwright, page, propagated, stdout, files, History>>

\* line 6: page = browser.new_page()
NewPage ==
  /\ pc = "NewPage"
  /\ \E o \in Outcomes("NewPage") :
       /\ calls' = Append(calls, Call("new_page", "", 0, FALSE, o))
       /\ page' = IF o = NoExc THEN "open" ELSE page
       /\ exc' = o
       /\ pc' = Target("NewPage", o)
  /\ UNCHANGED <<playwright, browser, propagated, stdout, files, History>>

\* lines 8-9: print("Navigating to ..."); page.goto(URL)
Goto ==
  /\ pc = "Goto"
  /\ \E o \in Outcomes("Goto") :
       /\ stdout' = Append(stdout, <<"Navigating to http://localhost:3002">>)
       /\ calls' = Append(calls, Call("goto", URL, 0, FALSE, o))
       /\ exc' = o
       /\ pc' = Target("Goto", o)
  /\ UNCHANGED <<playwright, browser, page, propagated, files, History>>

\* lines 12-13: print("Waiting for content..."); page.wait_for_selector("body", timeout=10000)
WaitForSelector ==
  /\ pc = "WaitForSelector"
  /\ \E o \in Raises("WaitForSelector")
             \cup {WaitForSelectorResult(t, SelectorTimeoutMs) : t \in BodyTimes} :
       /\ stdout' = Append(stdout, <<"Waiting for content...">>)
       /\ calls' = Append(calls, Call("wait_for_selector", Selector, SelectorTimeoutMs, FALSE, o))
       /\ exc' = o
       /\ pc' = Target("WaitForSelector", o)
  /\ UNCHANGED <<playwright, browser, page, propagated, files, History>>

\* line 16: page.wait_for_timeout(2000)
WaitForTimeout ==
  /\ pc = "WaitForTimeout"
  /\ \E o \in Outcomes("WaitForTimeout") :
       /\ calls' = Append(calls, Call("wait_for_timeout", "", SettleDelayMs, FALSE, o))
       /\ exc' = o
       /\ pc' = Target("WaitForTimeout", o)
  /\ UNCHANGED <<playwright, browser, page, propagated, stdout, files, History>>

\* lines 19-21: print("Taking screenshot..."); page.screenshot(path=...); print("Screenshot taken successfully.")
Screenshot ==
  /\ pc = "Screenshot"
  /\ \E o \in Outcomes("Screenshot") :
       /\ stdout' = IF o = NoExc
                    THEN stdout \o << <<"Taking screenshot...">>,
                                      <<"Screenshot taken successfully.">> >>
                    ELSE Append(stdout, <<"Taking screenshot...">>)
       /\ calls' = Append(calls, Call("screenshot", SuccessPath, 0, SuccessShotFullPage, o))
       /\ files' = ScreenshotTo(files, SuccessPath, run, o)
       /\ exc' = o
       /\ pc' = Target("Screenshot", o)
  /\ UNCHANGED <<playwright, browser, page, propagated, History>>

\* lines 22-24: except Exception as e: print(f"Error: {e}"); page.screenshot(path=...)
Except ==
  /\ pc = "Except"
  /\ \E o \in Outcomes("Except") :
       /\ stdout' = Append(stdout, <<"Error: ", exc>>)
       /\ calls' = Append(calls, Call("screenshot", FailurePath, 0, FailureShotFullPage, o))
       /\ files' = ScreenshotTo(files, FailurePath, run, o)
       /\ exc' = o                       \* e is handled; a raise here replaces it
       /\ pc' = Target("Except", o)
  /\ UNCHANGED <<playwright, browser, page, propagated, History>>

\* lines 25-26: finally: browser.close()
Finally ==
  /\ pc = "Finally"
  /\ \E o \in Outcomes("Finally") :
       /\ calls' = Append(calls, Call("close", "", 0, FALSE, o))
       /\ browser' = IF o = NoExc THEN "closed" ELSE browser
       /\ exc' = IF o = NoExc THEN exc ELSE o   \* a raise in finally replaces the pending one
       /\ pc' = Target("Finally", o)
  /\ UNCHANGED <<playwright, page, propagated, stdout, files, History>>

\* line 4: end of the with block (__exit__ stops the Playwright driver)
WithExit ==
  /\ pc = "WithExit"
  /\ \E o \in Outcomes("WithExit") :
       /\ calls' = Append(calls, Call("stop", "", 0, FALSE, o))
       /\ playwright' = "stopped"
       /\ propagated' = IF o = NoExc THEN exc ELSE o
       /\ exc' = NoExc
       /\ pc' = Target("WithExit", o)
  /\ UNCHANGED <<browser, page, stdout, files, History>>

\* Every call of the run returned normally.
AllOk(cs) == \A i \in 1..Len(cs) : cs[i].ok

\* The run took the success path: the success screenshot returned.
ShotOk(cs) ==
  \E i \in 1..Len(cs) :
     cs[i].op = "screenshot" /\ cs[i].target = "verification/app_loaded.png" /\ cs[i].ok

\* lines 28-29: the script is started again (a fresh process, same directory)
RunAgain ==
  /\ pc = "Done"
  /\ run < MaxRuns
  /\ run' = run + 1
  /\ prevSuccess' = ShotOk(calls)
  /\ prevStartFiles' = startFiles
  /\ startFiles' = files
  /\ pc' = "Idle"
  /\ playwright' = "none"
  /\ browser' = "none"
  /\ page' = "none"
  /\ exc' = NoExc
  /\ propagated' = NoExc
  /\ calls' = << >>
  /\ stdout' = << >>
  /\ UNCHANGED files

Next ==
  \/ SyncPlaywrightEnter
  \/ Launch
  \/ NewPage
  \/ Goto
  \/ WaitForSelector
  \/ WaitForTimeout
  \/ Screenshot
  \/ Except
  \/ Finally
  \/ WithExit
  \/ RunAgain

Spec == Init /\ [][Next]_vars

TypeOK ==
  /\ pc \in {"Idle", "Launch", "NewPage", "Goto", "WaitForSelector",
             "WaitForTimeout", "Screenshot", "Except", "Finally", "WithExit", "Done"}
  /\ run \in 1..MaxRuns
  /\ browser \in {"none", "open", "closed"}
  /\ page \in {"none", "open"}
  /\ files \in [Paths -> 0..MaxRuns]

\* ------------------------------------------------- vocabulary of the properties
IsSuccessShot(c) == c.op = "screenshot" /\ c.target = "verification/app_loaded.png"
IsFailureShot(c) == c.op = "screenshot" /\ c.target = "verification/error.png"
IsPageOp(c) == c.op \in {"goto", "wait_for_selector", "wait_for_timeout", "screenshot"}
IsNavOrWait(c) == c.op \in {"goto", "wait_for_selector", "wait_for_timeout"}

Pos(op) == {i \in 1..Len(calls) : calls[i].op = op}
SuccessShots == {i \in 1..Len(calls) : IsSuccessShot(calls[i])}
FailureShots == {i \in 1..Len(calls) : IsFailureShot(calls[i])}
CloseCalls == Cardinality(Pos("close"))
WrittenThisRun == {p \in Paths : files[p] = run}
Existing(fs) == {p \in Paths : fs[p] # 0}
RunEnded == pc = "Done"
HandlerDone == pc \in {"Finally", "WithExit", "Done"}

\* A step of the try body raised / a step before the try raised.
TryRaised == \E i \in 1..Len(calls) :
                /\ ~calls[i].ok
                /\ IsNavOrWait(calls[i]) \/ IsSuccessShot(calls[i])
PreRaised == \E i \in 1..Len(calls) :
                ~calls[i].ok /\ calls[i].op \in {"sync_playwright", "launch", "new_page"}
FailureShotOk == \E i \in FailureShots : calls[i].ok

\* ------------------------------------------------------------------- C1
\* C1: in every run, whichever step raises, a browser that was launched is
\* closed exactly once: browser.close() is never called twice, and it has
\* been called once by the time the run ends.
C1_ClosedExactlyOnce ==
  /\ CloseCalls <= 1
  /\ (RunEnded /\ (\E i \in Pos("launch") : calls[i].ok)) => CloseCalls = 1

\* ------------------------------------------------------------------- C2
\* C2 (as stated): every run writes exactly one image file, either
\* app_loaded.png or error.png, whichever step fails or succeeds.
C2_ExactlyOneFile == RunEnded => Cardinality(WrittenThisRun) = 1

\* C2 (amended): a run never writes both files; it writes app_loaded.png
\* exactly when no step up to and including the success screenshot raises,
\* error.png exactly when a step of the try body raises and the failure
\* screenshot then returns, and nothing otherwise (start, launch or new_page
\* raised, or the failure screenshot itself raised).
C2_AtMostOneFile ==
  /\ Cardinality(WrittenThisRun) <= 1
  /\ FailureShots # {} => TryRaised
  /\ RunEnded =>
       /\ ("verification/app_loaded.png" \in WrittenThisRun) <=> (~PreRaised /\ ~TryRaised)
       /\ ("verification/error.png" \in WrittenThisRun) <=> (TryRaised /\ FailureShotOk)

\* A run that ended without any file: the failure screenshot raised.
C2_Witness ==
  /\ RunEnded
  /\ WrittenThisRun = {}
  /\ \E i \in FailureShots : ~calls[i].ok

\* ------------------------------------------------------------------- C3
\* C3: no exception leaves verify_app_loads, whichever step raises,
\* including the failure screenshot and browser.close().
C3_NoPropagation == RunEnded => propagated = NoExc

\* ------------------------------------------------------------------- C4
NavFailures == {i \in 1..Len(calls) : IsNavOrWait(calls[i]) /\ ~calls[i].ok}

\* C4 (as stated): when goto, wait_for_selector or wait_for_timeout raises,
\* the run prints "Error: <reason>", captures error.png, and neither takes
\* the success screenshot nor writes app_loaded.png.
C4_FailurePath ==
  \A i \in NavFailures :
     RunEnded =>
       /\ \E k \in 1..Len(stdout) : stdout[k] = <<"Error: ", calls[i].raised>>
       /\ "verification/error.png" \in WrittenThisRun
       /\ SuccessShots = {}
       /\ "verification/app_loaded.png" \notin WrittenThisRun

\* C4 (amended): when goto, wait_for_selector or wait_for_timeout raises, the
\* exception is caught by the handler, which prints "Error: <reason>" and
\* attempts the screenshot to error.png as the very next call; error.png is
\* written exactly when that screenshot returns; the success screenshot is
\* never taken and app_loaded.png is not written in that run.  A body that does
\* not show up within 10000 ms is such a failure, with the timeout message.
C4_FailurePathAttempted ==
  /\ \A i \in NavFailures :
       /\ i = Len(calls) => (pc = "Except" /\ exc = calls[i].raised)
       /\ SuccessShots = {}
       /\ "verification/app_loaded.png" \notin WrittenThisRun
       /\ i < Len(calls) =>
            /\ HandlerDone
            /\ IsFailureShot(calls[i + 1])
            /\ \E k \in 1..Len(stdout) : stdout[k] = <<"Error: ", calls[i].raised>>
            /\ ("verification/error.png" \in WrittenThisRun) <=> calls[i + 1].ok
  /\ \A i \in Pos("wait_for_selector") :
       /\ calls[i].ms = 10000
       /\ calls[i].raised = TimeoutMsg => i \in NavFailures

\* The body wait timed out and the run ended with error.png and the message.
C4_Witness ==
  /\ RunEnded
  /\ \E i \in Pos("wait_for_selector") : calls[i].raised = TimeoutMsg
  /\ stdout[Len(stdout)] = <<"Error: ", TimeoutMsg>>
  /\ WrittenThisRun = {"verification/error.png"}

\* ------------------------------------------------------------------- C5
SuccessLines ==
  << <<"Navigating to http://localhost:3002">>,
     <<"Waiting for content...">>,
     <<"Taking screenshot...">>,
     <<"Screenshot taken successfully.">> >>

\* C5: once the success screenshot has returned (no step raised), the run has
\* written app_loaded.png and not error.png, and the console shows exactly
\* the four progress lines in order, with no "Error: " line.
C5_SuccessPath ==
  ShotOk(calls) =>
    /\ WrittenThisRun = {"verification/app_loaded.png"}
    /\ files["verification/error.png"] = startFiles["verification/error.png"]
    /\ stdout = SuccessLines
    /\ \A k \in 1..Len(stdout) : stdout[k][1] # "Error: "

C5_Witness == RunEnded /\ AllOk(calls) /\ ShotOk(calls) /\ stdout = SuccessLines

State ==
  CASE pc \in {"Idle", "Launch"} -> "Idle"
    [] pc = "NewPage"            -> "SessionOpen"
    [] pc = "Goto"               -> "Navigating"
    [] pc = "WaitForSelector"    -> "WaitingForBody"
    [] pc = "WaitForTimeout"     -> "Settling"
    [] pc = "Screenshot"         -> "Screenshotting"
    [] pc = "Except"             -> "FailureScreenshotting"
    [] pc = "Finally"            -> "Closing"
    [] pc \in {"WithExit", "Done"} ->
         IF CloseCalls > 0 THEN "SessionClosed"
         ELSE IF browser = "open" THEN "EndedOpen" ELSE "NeverOpened"

Working == {"SessionOpen", "Navigating", "WaitingForBody", "Settling", "Screenshotting"}

ClaimEdges ==
  {<<"Idle", "Idle">>, <<"Idle", "SessionOpen">>, <<"Idle", "NeverOpened">>,
   <<"NeverOpened", "NeverOpened">>, <<"NeverOpened", "Idle">>,
   <<"SessionOpen", "Navigating">>, <<"Navigating", "WaitingForBody">>,
   <<"WaitingForBody", "Settling">>, <<"Settling", "Screenshotting">>,
   <<"Screenshotting", "Closing">>, <<"FailureScreenshotting", "Closing">>,
   <<"Closing", "SessionClosed">>,
   <<"SessionClosed", "SessionClosed">>, <<"SessionClosed", "Idle">>}
  \cup {<<s, "FailureScreenshotting">> : s \in Working}

\* C7: a run moves Idle -> SessionOpen -> Navigating -> WaitingForBody ->
\* Settling -> Screenshotting -> SessionClosed; from every state after
\* SessionOpen, the interval between launch and the page being opened
\* included, an exception leads to FailureScreenshotting and then to
\* SessionClosed; there is no other transition.  (Closing is the call of
\* browser.close() on the edge into SessionClosed; a run that never opened a
\* browser, and the start of the next run, lie outside the machine.)
C7_StateMachine ==
  [][ /\ <<State, State'>> \in ClaimEdges
      /\ (State \in Working /\ ~calls'[Len(calls')].ok) => State' = "FailureScreenshotting"
    ]_vars

\* ------------------------------------------------------------------- C8
Steps == <<"goto", "wait_for_selector", "wait_for_timeout", "screenshot">>
StepPos(n) == IF n = 4 THEN SuccessShots ELSE Pos(Steps[n])

\* C8: in one run goto, the body wait, the settle delay and the success
\* screenshot are each executed at most once and only in that order, each
\* only after the one before it returned (no retry after a failure); the
\* 2000 ms settle delay is executed whenever the body wait returned, and the
\* success screenshot is taken only after the settle delay has returned.
C8_SingleOrderedAttempt ==
  /\ \A n \in 1..4 : Cardinality(StepPos(n)) <= 1
  /\ \A n \in 2..4 : \A i \in StepPos(n) :
        \E j \in StepPos(n - 1) : j < i /\ calls[j].ok
  /\ \A i \in 1..Len(calls) : \A j \in 1..Len(calls) :
        (i < j /\ ~calls[i].ok /\ IsPageOp(calls[i])) => ~IsNavOrWait(calls[j]) /\ ~IsSuccessShot(calls[j])
  /\ \A i \in Pos("wait_for_selector") :
        calls[i].ok => (pc = "WaitForTimeout" \/ Pos("wait_for_timeout") # {})
  /\ \A i \in Pos("wait_for_timeout") : calls[i].ms = 2000
  /\ \A i \in SuccessShots :
        \E j \in Pos("wait_for_timeout") : j < i /\ calls[j].ok /\ calls[j].ms = 2000

C8_Witness ==
  /\ RunEnded /\ ShotOk(calls)
  /\ \A n \in 1..4 : Cardinality(StepPos(n)) = 1

\* ------------------------------------------------------------------- C9
\* C9 (as stated): the success screenshot is a full-page capture written to
\* verification/app_loaded.png.
C9_FullPageShot ==
  \A i \in 1..Len(calls) :
     (calls[i].op = "screenshot" /\ (\A j \in 1..(i - 1) : calls[j].ok)) =>
        /\ calls[i].fullPage
        /\ calls[i].target = "verification/app_loaded.png"

\* C9 (amended): the success screenshot, taken after the settle delay, is
\* requested without the full_page option, so it captures the viewport only;
\* it is written to the fixed path verification/app_loaded.png.
C9_ViewportShot ==
  \A i \in 1..Len(calls) :
     (calls[i].op = "screenshot" /\ (\A j \in 1..(i - 1) : calls[j].ok)) =>
        /\ ~calls[i].fullPage
        /\ calls[i].target = "verification/app_loaded.png"
        /\ \E j \in Pos("wait_for_timeout") : j < i
        /\ calls[i].ok => files["verification/app_loaded.png"] = run

C9_Witness ==
  \E i \in SuccessShots : calls[i].ok /\ ~calls[i].fullPage /\ files["verification/app_loaded.png"] = run

\* ------------------------------------------------------------------ C10
\* C10: every call on the page (goto, wait_for_selector, wait_for_timeout,
\* either screenshot) is made after launch and new_page have returned and
\* before browser.close() is called; the failure screenshot precedes the
\* close of the finally block.
C10_PageOpsWhileOpen ==
  /\ \A i \in 1..Len(calls) : IsPageOp(calls[i]) =>
        /\ \E j \in Pos("launch") : j < i /\ calls[j].ok
        /\ \E j \in Pos("new_page") : j < i /\ calls[j].ok
        /\ \A j \in Pos("close") : i < j
        /\ \A j \in Pos("stop") : i < j
  /\ pc \in {"Goto", "WaitForSelector", "WaitForTimeout", "Screenshot", "Except"} =>
        (browser = "open" /\ page = "open" /\ playwright = "running")

C10_Witness ==
  /\ RunEnded
  /\ \E i \in FailureShots : \E j \in Pos("close") : i < j
====
